---- MODULE Spec2Model ----
(***************************************************************************)
(* ceilometer/network/notifications.py: the Neutron notification handlers. *)
(*                                                                         *)
(* Python objects live in a heap (address -> dict), so that aliasing, the  *)
(* shallow message.copy() and the in-place write resource['id'] = ... are  *)
(* visible.  process_notification is a generator: it runs from one yield   *)
(* to the next each time the consumer asks for a sample.                   *)
(*                                                                         *)
(* A Python str that the code splits, concatenates or uses as a computed   *)
(* dict key is a sequence of one-character strings; opaque values (ids,    *)
(* heap addresses, fixed message keys) are TLA+ strings.                   *)
(***************************************************************************)
EXTENDS Integers, Sequences, FiniteSets, TLC

\* Bounds of the model.
MaxResources == 2   \* longest resource collection in a payload
MaxRuns == 2        \* times the caller runs the handler on the same envelope

NoneVal == "<None>"   \* Python None (where a str or an object is expected)

\* ---------------------------------------------------------------- literals
S_network == <<"n","e","t","w","o","r","k">>
S_floatingip == <<"f","l","o","a","t","i","n","g","i","p">>
S_ip_floating == <<"i","p",".","f","l","o","a","t","i","n","g">>
S_ip == <<"i","p">>
S_bandwidth == <<"b","a","n","d","w","i","d","t","h">>
S_B == <<"B">>
S_dot == <<".">>
S_s == <<"s">>
S_create == <<"c","r","e","a","t","e">>
S_update == <<"u","p","d","a","t","e">>
S_start == <<"s","t","a","r","t">>
S_end == <<"e","n","d">>
S_exists == <<"e","x","i","s","t","s">>
S_update_start == S_update \o S_dot \o S_start
S_l3_meter == <<"l","3",".","m","e","t","e","r">>
S_id == <<"i","d">>
S_name == <<"n","a","m","e">>
S_bytes == <<"b","y","t","e","s">>
S_tenant_id == <<"t","e","n","a","n","t","_","i","d">>
S_label_id == <<"l","a","b","e","l","_","i","d">>

TYPE_GAUGE == "gauge"
TYPE_DELTA == "delta"

\* ------------------------------------------------------------------- dicts
Has(d, k) == k \in DOMAIN d
\* dict.get(k): None when the key is absent
Get(d, k) == IF k \in DOMAIN d THEN d[k] ELSE NoneVal
\* d[k] = v
SetItem(d, k, v) == [x \in (DOMAIN d) \cup {k} |-> IF x = k THEN v ELSE d[x]]

\* ------------------------------------------------------------- str methods
\* s.endswith(suffix)
endswith(s, suffix) ==
    /\ Len(suffix) <= Len(s)
    /\ SubSeq(s, Len(s) - Len(suffix) + 1, Len(s)) = suffix

\* s.split(sep) for a one-character separator: scans left to right, cur is
\* the segment being read, acc the segments already closed.
RECURSIVE SplitFrom(_, _, _, _, _)
SplitFrom(s, sep, k, cur, acc) ==
    IF k > Len(s) THEN Append(acc, cur)
    ELSE IF s[k] = sep THEN SplitFrom(s, sep, k + 1, <<>>, Append(acc, cur))
    ELSE SplitFrom(s, sep, k + 1, Append(cur, s[k]), acc)

split(s, sep) == SplitFrom(s, sep, 1, <<>>, <<>>)

\* ---------------------------------------------------------------- classes
GenericClasses == {"Network", "FloatingIP"}
Classes == GenericClasses \cup {"Bandwidth"}

\* Class attributes visible through self.
ClassAttrs(cls) ==
    CASE cls = "Network" -> [resource_name |-> S_network]
      [] cls = "FloatingIP" -> [resource_name |-> S_floatingip,
                                counter_name |-> S_ip_floating,
                                unit |-> S_ip]
      [] cls = "Bandwidth" -> [event_types |-> <<S_l3_meter>>]

\* getattr(self, attr, default)
getattr(cls, attr, default) ==
    IF attr \in DOMAIN ClassAttrs(cls) THEN ClassAttrs(cls)[attr] ELSE default

resource_name(cls) == ClassAttrs(cls)["resource_name"]
counter_name(cls) == getattr(cls, "counter_name", resource_name(cls))
unit_value(cls) == getattr(cls, "unit", resource_name(cls))

\* The event types the generic handlers subscribe to, with '*' instantiated.
EventTypes(cls) ==
    IF cls = "Bandwidth" THEN {S_l3_meter}
    ELSE { resource_name(cls) \o S_dot \o S_create \o S_dot \o S_end,
           resource_name(cls) \o S_dot \o S_update \o S_dot \o S_start,
           resource_name(cls) \o S_dot \o S_update \o S_dot \o S_end,
           resource_name(cls) \o S_dot \o S_exists }

VARIABLES
    self,              \* class of the handler the envelope is given to
    heap,              \* address -> dict
    pc,                \* position of the generator
    err,               \* exception that escaped, "" if none
    resources,         \* local `resources`: [none, items]
    resource_message,  \* local `resource_message`: address of the copy
    i,                 \* resources taken by the for loop so far
    samples,           \* samples yielded by the current run
    run,               \* number of the current run on this envelope
    prev               \* samples and outcome of the previous run

vars == <<self, heap, pc, err, resources, resource_message, i, samples, run, prev>>

\* ------------------------------------------------------------- the inputs
Absent == "<absent>"   \* marks a key the dict does not carry

\* dict with the one key k when present, the empty dict otherwise
OptKey(k, present, v) == IF present THEN k :> v ELSE <<>>

ResourceAddr(k) == "r" \o ToString(k)

\* Resource objects as Neutron sends them; k numbers the object.
ResourceObject(shape, k) ==
    CASE shape = "empty" -> <<>>
      [] shape = "noid" -> (S_name :> "changed")
      [] shape = "id" -> (S_id :> ("n" \o ToString(k))) @@ (S_name :> "net")
      [] shape = "emptyid" -> (S_id :> "")
      [] shape = "noneid" -> (S_id :> NoneVal)

PayloadIds == {Absent, "X", ""}
SingularShapes == {"absent", "None", "empty", "noid", "id", "noneid"}
ElemShapes == {"id", "noid", "emptyid"}
Collections == UNION {[1..n -> ElemShapes] : n \in 0..MaxResources}

\* The decoded envelope: event type, payload reference, context fields.
Message(et, hasUser, hasTenant) ==
    ("event_type" :> et) @@ ("payload" :> "payload")
        @@ OptKey("_context_user_id", hasUser, "u1")
        @@ OptKey("_context_tenant_id", hasTenant, "p1")

\* Payload of a resource notification: the resource under resource_name
\* (object r0), and/or a collection under resource_name + 's' (r1, r2, ...).
GenericPayload(cls, pid, sing, hasColl, coll) ==
    OptKey(S_id, pid # Absent, pid)
        @@ OptKey(resource_name(cls), sing # "absent",
                  IF sing = "None" THEN NoneVal ELSE ResourceAddr(0))
        @@ OptKey(resource_name(cls) \o S_s, hasColl,
                  [k \in 1..Len(coll) |-> ResourceAddr(k)])

GenericHeap(cls, et, hasUser, hasTenant, pid, sing, hasColl, coll) ==
    ("message" :> Message(et, hasUser, hasTenant))
        @@ ("payload" :> GenericPayload(cls, pid, sing, hasColl, coll))
        @@ OptKey(ResourceAddr(0), sing \notin {"absent", "None"},
                  ResourceObject(sing, 0))
        @@ [a \in {ResourceAddr(k) : k \in 1..Len(coll)} |->
              LET k == CHOOSE k \in 1..Len(coll) : ResourceAddr(k) = a
              IN ResourceObject(coll[k], k)]

\* Payload of an l3.meter notification.
LabelIds == {Absent, "lbl1", "", NoneVal}
ByteCounts == {0, 4096}

BandwidthHeap(et, hasUser, hasTenant, hasBytes, bytes, hasProject, label) ==
    ("message" :> Message(et, hasUser, hasTenant))
        @@ ("payload" :> (OptKey(S_bytes, hasBytes, bytes)
                          @@ OptKey(S_tenant_id, hasProject, "p1")
                          @@ OptKey(S_label_id, label # Absent, label)))

NoResources == [none |-> TRUE, items |-> <<>>]
NoRun == [samples |-> <<>>, pc |-> "", err |-> ""]

InitLocals ==
    /\ pc = "ready"
    /\ err = ""
    /\ resources = NoResources
    /\ resource_message = NoneVal
    /\ i = 0
    /\ samples = <<>>
    /\ run = 1
    /\ prev = NoRun

InitGeneric ==
    \E cls \in GenericClasses :
      \E et \in EventTypes(cls), hasUser \in BOOLEAN, hasTenant \in BOOLEAN,
         pid \in PayloadIds, sing \in SingularShapes,
         hasColl \in BOOLEAN, coll \in Collections :
        /\ hasColl \/ coll = <<>>
        /\ self = cls
        /\ heap = GenericHeap(cls, et, hasUser, hasTenant, pid, sing, hasColl, coll)
        /\ InitLocals

InitBandwidth ==
    \E et \in EventTypes("Bandwidth"), hasUser \in BOOLEAN, hasTenant \in BOOLEAN,
       hasBytes \in BOOLEAN, bytes \in ByteCounts, hasProject \in BOOLEAN,
       label \in LabelIds :
      /\ hasBytes \/ bytes = 0
      /\ self = "Bandwidth"
      /\ heap = BandwidthHeap(et, hasUser, hasTenant, hasBytes, bytes, hasProject, label)
      /\ InitLocals

Init == InitGeneric \/ InitBandwidth

\* ------------------------------------------------------------ the handlers
\* Sample.from_notification: the sample keeps the values it is given and
\* retains the envelope it was built from.
from_notification(name, type, unit, volume, user_id, project_id, resource_id, message) ==
    [name |-> name, type |-> type, unit |-> unit, volume |-> volume,
     user_id |-> user_id, project_id |-> project_id,
     resource_id |-> resource_id, raw_message |-> message]

\* Variant: `if resource is not None:`
Truthy_NotNone(h, v) == v # NoneVal

\* `if resource:` -- None and the empty dict are false
Truthy(h, v) == v # NoneVal /\ DOMAIN h[v] # {}

\* Variant: the id is written for every update event, not only update.start
NeedsBackfill_AnyUpdate(event_type) ==
    \E k \in 1..Len(split(event_type, ".")) : split(event_type, ".")[k] = S_update

\* message['event_type'].endswith('update.start')
NeedsBackfill(event_type) == endswith(event_type, S_update_start)

\* Variant: resource.setdefault('id', ...) keeps an id the resource carries
BackfillId_SetDefault(h, resource, id) ==
    IF Has(h[resource], S_id) THEN h
    ELSE [h EXCEPT ![resource] = SetItem(@, S_id, id)]

\* resource['id'] = message['payload']['id']
BackfillId(h, resource, id) == [h EXCEPT ![resource] = SetItem(@, S_id, id)]

\* message['payload'].get(self.resource_name + 's')
PluralGet(payload, cls) ==
    IF Has(payload, resource_name(cls) \o S_s)
    THEN [none |-> FALSE, items |-> payload[resource_name(cls) \o S_s]]
    ELSE NoResources

\* Variant: resource_message = message, no copy
MessageCopy_Alias(h, new) == [heap |-> h, ref |-> "message"]

\* resource_message = message.copy(): a new dict with the same entries
MessageCopy(h, new) == [heap |-> (new :> h["message"]) @@ h, ref |-> new]

ViewAddr(r) == "view" \o ToString(r)

\* Variant: len(event_type_split) > 1
HasDelta_AtLeastTwo(event_type_split) == Len(event_type_split) > 1

\* len(event_type_split) > 2
HasDelta(event_type_split) == Len(event_type_split) > 2

\* counter_name + "." + event_type_split[1]  (Python indexes from 0)
DeltaName(name, event_type_split) == name \o S_dot \o event_type_split[2]

\* Variant: d.get(k), None for a missing key
GetItem_Get(d, k) == Get(d, k)

\* d[k] where the key may be missing: KeyErr stands for the KeyError raised
KeyErr == "<KeyError>"
GetItem(d, k) == IF Has(d, k) THEN d[k] ELSE KeyErr

\* The keyword arguments user_id, project_id, resource_id of lines 99-101
\* (and 111-113), evaluated in this order.
SampleArgs(view, resource) ==
    [user_id |-> GetItem(view, "_context_user_id"),
     project_id |-> GetItem(view, "_context_tenant_id"),
     resource_id |-> GetItem(resource, S_id)]

\* The first missing key raises.
ArgsError(args) ==
    IF args.user_id = KeyErr THEN "KeyError"
    ELSE IF args.project_id = KeyErr THEN "KeyError"
    ELSE IF args.resource_id = KeyErr THEN "KeyError"
    ELSE ""

GaugeSample(cls, args, view) ==
    from_notification(counter_name(cls), TYPE_GAUGE, unit_value(cls), 1,
                      args.user_id, args.project_id, args.resource_id, view)

DeltaSample(cls, args, view, event_type_split) ==
    from_notification(DeltaName(counter_name(cls), event_type_split),
                      TYPE_DELTA, unit_value(cls), 1,
                      args.user_id, args.project_id, args.resource_id, view)

Raise(e) == pc' = "raised" /\ err' = e

\* Lines 87-91: the resources are bound, the envelope is copied, and control
\* reaches the for statement.
EnterLoop(h, rs) ==
    LET c == MessageCopy(h, ViewAddr(run))
    IN /\ heap' = c.heap
       /\ resource_message' = c.ref
       /\ resources' = rs
       /\ pc' = "loop"
       /\ UNCHANGED <<self, err, i, samples, run, prev>>

\* First request for a sample: lines 77-91.
Start ==
    /\ pc = "ready"
    /\ self \in GenericClasses
    /\ LET message == heap["message"]
           payload == heap[message["payload"]]
           resource == Get(payload, resource_name(self))
       IN IF Truthy(heap, resource)
          THEN IF NeedsBackfill(message["event_type"])
               THEN IF GetItem(payload, S_id) # KeyErr
                    THEN EnterLoop(BackfillId(heap, resource, GetItem(payload, S_id)),
                                   [none |-> FALSE, items |-> <<resource>>])
                    ELSE /\ Raise("KeyError")
                         /\ UNCHANGED <<self, heap, resources, resource_message,
                                        i, samples, run, prev>>
               ELSE EnterLoop(heap, [none |-> FALSE, items |-> <<resource>>])
          ELSE EnterLoop(heap, PluralGet(payload, self))

\* Lines 92-102: the for statement takes the next resource, the view's
\* payload is set to it and the gauge sample is yielded.
LoopNext ==
    /\ pc = "loop"
    /\ IF resources.none
       THEN /\ Raise("TypeError")
            /\ UNCHANGED <<self, heap, resources, resource_message, i, samples,
                           run, prev>>
       ELSE IF i >= Len(resources.items)
       THEN /\ pc' = "done"
            /\ UNCHANGED <<self, heap, err, resources, resource_message, i,
                           samples, run, prev>>
       ELSE LET resource == resources.items[i + 1]
                h == [heap EXCEPT ![resource_message] =
                                     SetItem(@, "payload", resource)]
                args == SampleArgs(h[resource_message], h[resource])
                e == ArgsError(args)
            IN /\ heap' = h
               /\ i' = i + 1
               /\ IF e # ""
                  THEN /\ Raise(e)
                       /\ UNCHANGED samples
                  ELSE /\ samples' = Append(samples,
                              GaugeSample(self, args, resource_message))
                       /\ pc' = "gauge"
                       /\ UNCHANGED err
               /\ UNCHANGED <<self, resources, resource_message, run, prev>>

\* Lines 103-114: resumed after the gauge sample; the delta sample is
\* yielded when the event type has more than two segments.  The keys read
\* here were read for the gauge sample, so nothing can raise.
AfterGauge ==
    /\ pc = "gauge"
    /\ LET event_type_split == split(heap[resource_message]["event_type"], ".")
           args == SampleArgs(heap[resource_message], heap[resources.items[i]])
       IN samples' = IF HasDelta(event_type_split)
                     THEN Append(samples,
                                 DeltaSample(self, args, resource_message,
                                             event_type_split))
                     ELSE samples
    /\ pc' = "loop"
    /\ UNCHANGED <<self, heap, err, resources, resource_message, i, run, prev>>

\* Variant: user_id taken from the envelope's context
BandwidthSample_ContextUser(h) ==
    LET payload == h[h["message"]["payload"]]
    IN from_notification(S_bandwidth, TYPE_DELTA, S_B, payload[S_bytes],
                         Get(h["message"], "_context_user_id"),
                         payload[S_tenant_id], payload[S_label_id], "message")

\* Bandwidth.process_notification, lines 166-175.
BandwidthSample(h) ==
    LET payload == h[h["message"]["payload"]]
    IN from_notification(S_bandwidth, TYPE_DELTA, S_B, payload[S_bytes], NoneVal,
                         payload[S_tenant_id], payload[S_label_id], "message")

BandwidthArgsError(payload) ==
    IF ~Has(payload, S_bytes) THEN "KeyError"
    ELSE IF ~Has(payload, S_tenant_id) THEN "KeyError"
    ELSE IF ~Has(payload, S_label_id) THEN "KeyError"
    ELSE ""

BandwidthStart ==
    /\ pc = "ready"
    /\ self = "Bandwidth"
    /\ LET e == BandwidthArgsError(heap[heap["message"]["payload"]])
       IN IF e # ""
          THEN /\ Raise(e)
               /\ UNCHANGED samples
          ELSE /\ samples' = Append(samples, BandwidthSample(heap))
               /\ pc' = "yielded"
               /\ UNCHANGED err
    /\ UNCHANGED <<self, heap, resources, resource_message, i, run, prev>>

\* Resumed after its only sample, the generator returns.
BandwidthFinish ==
    /\ pc = "yielded"
    /\ pc' = "done"
    /\ UNCHANGED <<self, heap, err, resources, resource_message, i, samples,
                   run, prev>>

\* The caller keeps the result and hands the same envelope to the handler
\* again: a new generator, new locals, the same objects.
Rerun ==
    /\ pc \in {"done", "raised"}
    /\ run < MaxRuns
    /\ prev' = [samples |-> samples, pc |-> pc, err |-> err]
    /\ run' = run + 1
    /\ pc' = "ready"
    /\ err' = ""
    /\ resources' = NoResources
    /\ resource_message' = NoneVal
    /\ i' = 0
    /\ samples' = <<>>
    /\ UNCHANGED <<self, heap>>

Next ==
    \/ Start
    \/ LoopNext
    \/ AfterGauge
    \/ BandwidthStart
    \/ BandwidthFinish
    \/ Rerun

Spec == Init /\ [][Next]_vars

\* ================================================================ claims
IsGeneric == self \in GenericClasses
TheMessage == heap["message"]      \* the caller's envelope
ThePayload == heap["payload"]      \* the payload mapping it arrived with
TheEventType == TheMessage["event_type"]
SingularKey == resource_name(self)
PluralKey == resource_name(self) \o S_s
Finished == pc \in {"done", "raised"}
\* the resources are bound and the envelope is copied
Extracted == resource_message # NoneVal

\* A sample without the envelope it retains.
Fields(s) == [name |-> s.name, type |-> s.type, unit |-> s.unit,
              volume |-> s.volume, user_id |-> s.user_id,
              project_id |-> s.project_id, resource_id |-> s.resource_id]
FieldsOfAll(ss) == [k \in 1..Len(ss) |-> Fields(ss[k])]

\* The event type read character by character, without split.
DotPositions(s) == {k \in 1..Len(s) : s[k] = "."}
NumSegments(s) == Cardinality(DotPositions(s)) + 1
FirstDot(s) == CHOOSE k \in DotPositions(s) : \A j \in DotPositions(s) : k <= j
SecondDot(s) ==
    CHOOSE k \in DotPositions(s) \ {FirstDot(s)} :
        \A j \in DotPositions(s) \ {FirstDot(s)} : k <= j
PhaseToken(s) == SubSeq(s, FirstDot(s) + 1, SecondDot(s) - 1)
SamplesPerResource == IF NumSegments(TheEventType) >= 3 THEN 2 ELSE 1
\* the resource the k-th sample of the run describes
ResourceOfSample(k) == resources.items[((k - 1) \div SamplesPerResource) + 1]

\* resources the loop has finished with: the one in hand is not finished
\* while its gauge sample is the last thing yielded, nor when it raised
CompletedResources ==
    IF pc \in {"loop", "done"} THEN i ELSE IF i > 0 THEN i - 1 ELSE 0

\* C1: in the generic pipeline every resource the loop has finished with
\* has produced exactly one gauge sample (name counter_name, unit, volume 1)
\* and exactly one further delta sample iff the event type has at least
\* three segments, named counter_name + "." + the second segment; the only
\* other sample is the gauge sample of the resource in hand.
C1_SamplesPerResource ==
    IsGeneric =>
        /\ Len(samples) = CompletedResources * SamplesPerResource
                            + (IF pc = "gauge" THEN 1 ELSE 0)
        /\ pc = "gauge" => samples[Len(samples)].type = TYPE_GAUGE
        /\ \A r \in 1..CompletedResources :
             LET g == samples[(r - 1) * SamplesPerResource + 1]
             IN /\ g.type = TYPE_GAUGE
                /\ g.name = counter_name(self)
                /\ g.unit = unit_value(self)
                /\ g.volume = 1
                /\ SamplesPerResource = 2 =>
                     LET d == samples[(r - 1) * SamplesPerResource + 2]
                     IN /\ d.type = TYPE_DELTA
                        /\ d.name = counter_name(self) \o S_dot
                                        \o PhaseToken(TheEventType)
                        /\ d.unit = unit_value(self)
                        /\ d.volume = 1

C1_Witness ==
    /\ IsGeneric /\ pc = "done" /\ i = 2
    /\ NumSegments(TheEventType) = 3
    /\ Len(samples) = 4
    /\ samples[4].type = TYPE_DELTA

\* C2: a payload with neither the resource_name key nor the
\* resource_name + 's' key makes the generic pipeline complete normally
\* with no sample and no error.
C2_NoKeysEmptyResult ==
    (IsGeneric /\ ~Has(ThePayload, SingularKey) /\ ~Has(ThePayload, PluralKey)) =>
        /\ pc # "raised"
        /\ samples = <<>>

\* C3: every sample any handler emits has a resource_id that is neither
\* None nor empty.
C3_ResourceIdNonEmpty ==
    \A k \in 1..Len(samples) : samples[k].resource_id \notin {"", NoneVal}

\* C4 as stated: with _context_tenant_id missing the generic pipeline never
\* completes normally, whatever the payload.
C4_NeverCompletes ==
    (IsGeneric /\ ~Has(TheMessage, "_context_tenant_id")) => pc # "done"

\* C4 amended: with _context_tenant_id missing the generic pipeline yields
\* no sample; as soon as the loop takes a resource it fails with a KeyError;
\* it completes normally only when the extracted collection is empty.
C4_MissingTenant ==
    (IsGeneric /\ ~Has(TheMessage, "_context_tenant_id")) =>
        /\ samples = <<>>
        /\ i >= 1 => (pc = "raised" /\ err = "KeyError")
        /\ pc = "done" => (~resources.none /\ resources.items = <<>>)

C4_Witness ==
    /\ IsGeneric
    /\ ~Has(TheMessage, "_context_tenant_id")
    /\ Has(TheMessage, "_context_user_id")
    /\ i = 1 /\ Has(heap[resources.items[1]], S_id)
    /\ pc = "raised" /\ err = "KeyError"

\* the payload holds its resource under resource_name: the key is there, and
\* not as a None or empty value next to a collection
SingularPayload ==
    /\ Has(ThePayload, SingularKey)
    /\ \/ ~Has(ThePayload, PluralKey)
       \/ /\ ThePayload[SingularKey] # NoneVal
          /\ DOMAIN heap[ThePayload[SingularKey]] # {}

\* C5: for a payload holding the resource under resource_name on an event
\* type ending in 'update.start' with payload id X, the resource's id is X
\* from extraction on and every sample of the envelope has resource_id X.
C5_UpdateStartBackfill ==
    (/\ IsGeneric
     /\ endswith(TheEventType, S_update_start)
     /\ SingularPayload
     /\ Has(ThePayload, S_id)) =>
        /\ \A k \in 1..Len(samples) : samples[k].resource_id = ThePayload[S_id]
        /\ (Extracted /\ ~resources.none) =>
             \A k \in 1..Len(resources.items) :
                 /\ resources.items[k] = ThePayload[SingularKey]
                 /\ Has(heap[resources.items[k]], S_id)
                 /\ heap[resources.items[k]][S_id] = ThePayload[S_id]

C5_Witness ==
    /\ IsGeneric /\ run = 1 /\ pc = "done"
    /\ endswith(TheEventType, S_update_start)
    /\ Has(ThePayload, SingularKey) /\ ~Has(ThePayload, PluralKey)
    /\ Has(ThePayload, S_id) /\ ThePayload[S_id] = "X"
    /\ Len(samples) = 2
    /\ samples[1].resource_id = "X" /\ samples[2].resource_id = "X"
    \* the resource arrived carrying its own id (the shape with name 'net')
    /\ Get(heap[ThePayload[SingularKey]], S_name) = "net"

\* C6 as stated: whatever value the payload holds under resource_name, that
\* value is the one resource extracted.
C6_AnyValueIsTheResource ==
    (IsGeneric /\ Has(ThePayload, SingularKey) /\ Extracted) =>
        /\ ~resources.none
        /\ resources.items = <<ThePayload[SingularKey]>>

\* C6 amended: a value under resource_name that is neither None nor empty
\* is the one resource extracted and resource_name + 's' is not consulted;
\* a None or empty value is passed over and resource_name + 's' is looked up.
C6_TruthyValueIsTheResource ==
    (IsGeneric /\ Has(ThePayload, SingularKey) /\ Extracted) =>
        IF /\ ThePayload[SingularKey] # NoneVal
           /\ DOMAIN heap[ThePayload[SingularKey]] # {}
        THEN /\ ~resources.none
             /\ resources.items = <<ThePayload[SingularKey]>>
        ELSE IF Has(ThePayload, PluralKey)
             THEN /\ ~resources.none
                  /\ resources.items = ThePayload[PluralKey]
             ELSE resources.none

C6_Witness ==
    /\ IsGeneric /\ pc = "done"
    /\ Has(ThePayload, SingularKey) /\ ThePayload[SingularKey] # NoneVal
    /\ Has(ThePayload, PluralKey) /\ Len(ThePayload[PluralKey]) = 2
    /\ resources.items = <<ThePayload[SingularKey]>>
    /\ i = 1 /\ samples # <<>>

\* C7: the Bandwidth handler yields exactly one sample for an l3.meter
\* payload: 'bandwidth', delta, 'B', volume bytes, project tenant_id,
\* resource label_id, user None whatever the context holds.
C7_BandwidthSample ==
    (self = "Bandwidth") =>
        /\ Len(samples) <= 1
        /\ pc \in {"yielded", "done"} =>
             FieldsOfAll(samples) =
                 << [name |-> S_bandwidth, type |-> TYPE_DELTA, unit |-> S_B,
                     volume |-> ThePayload[S_bytes], user_id |-> NoneVal,
                     project_id |-> ThePayload[S_tenant_id],
                     resource_id |-> ThePayload[S_label_id]] >>
        /\ ({S_bytes, S_tenant_id, S_label_id} \subseteq DOMAIN ThePayload) =>
             pc # "raised"

C7_Witness ==
    /\ self = "Bandwidth" /\ pc = "done"
    /\ Has(TheMessage, "_context_user_id")
    /\ Has(TheMessage, "_context_tenant_id")
    /\ Len(samples) = 1
    /\ samples[1].volume = 4096
    /\ samples[1].user_id = NoneVal

\* C8: a second run on the same envelope yields the same samples, field
\* for field, as the run before it.
C8_Idempotent ==
    (run > 1 /\ Finished) => FieldsOfAll(samples) = FieldsOfAll(prev.samples)

C8_Witness ==
    /\ IsGeneric /\ run = 2 /\ pc = "done"
    /\ endswith(TheEventType, S_update_start)
    /\ Len(samples) = 2
    /\ Len(prev.samples) = 2
    /\ samples[1].resource_id = "X"
    \* the resource arrived carrying another id (the shape with name 'net')
    /\ Has(ThePayload, SingularKey) /\ ThePayload[SingularKey] # NoneVal
    /\ Get(heap[ThePayload[SingularKey]], S_name) = "net"

\* C9: the envelope view each emitted sample retains has the resource the
\* sample describes as its payload, also after later resources are done.
C9_ViewPerResource ==
    IsGeneric =>
        \A k \in 1..Len(samples) :
            heap[samples[k].raw_message]["payload"] = ResourceOfSample(k)

\* The objects the caller handed in: everything but the handler's own copies.
InputObjects == DOMAIN heap \ {ViewAddr(r) : r \in 1..(MaxRuns + 1)}
C10_FrameStep ==
    /\ heap'["message"] = heap["message"]
    /\ heap'["payload"] = heap["payload"]
    /\ \A a \in InputObjects \ {"message", "payload"} :
         heap'[a] # heap[a] =>
            /\ IsGeneric
            /\ Has(ThePayload, SingularKey) /\ a = ThePayload[SingularKey]
            /\ endswith(TheEventType, S_update_start)
            /\ DOMAIN heap'[a] = DOMAIN heap[a] \cup {S_id}
            /\ \A k \in DOMAIN heap[a] \ {S_id} : heap'[a][k] = heap[a][k]

\* C10: no step changes the caller's envelope or its payload mapping; the
\* only input object a step writes is the resource under resource_name,
\* only its 'id' entry, and only when the event type ends in 'update.start'.
C10_Frame == [][C10_FrameStep]_vars

C10_Witness ==
    /\ IsGeneric /\ run = 1 /\ pc = "done"
    /\ endswith(TheEventType, S_update_start)
    /\ Has(ThePayload, SingularKey) /\ ThePayload[SingularKey] # NoneVal
    /\ Has(ThePayload, S_id) /\ ThePayload[S_id] = "X"
    /\ heap[ThePayload[SingularKey]] = (S_id :> "X")
    /\ heap[resource_message]["payload"] = ThePayload[SingularKey]
    /\ samples # <<>>

====
